---- MODULE Spec2Model ----
(***************************************************************************)
(* Model of lib/log/log.c: the two severity thresholds, the custom sink    *)
(* override, the shared rate limiter g_rs with its spin lock, and          *)
(* spdk_vlog / log_print_ratelimit executed by concurrent threads, one     *)
(* step per access to shared state, and spdk_log_dump / fdump, one step    *)
(* per loop iteration.  Program counters are named after the source line   *)
(* the thread is about to execute.                                         *)
(***************************************************************************)
EXTENDS Integers, Sequences, FiniteSets, TLC

\* ------------------------------------------------------------------------
\* Program constants
\* ------------------------------------------------------------------------
SPDK_LOG_DISABLED == -1
SPDK_LOG_ERROR == 0
SPDK_LOG_WARN == 1
SPDK_LOG_NOTICE == 2
SPDK_LOG_INFO == 3
SPDK_LOG_DEBUG == 4

Levels == SPDK_LOG_DISABLED .. SPDK_LOG_DEBUG

\* the values passed to the threshold setters: every level and the nearest
\* value out of range on either side
ArgLevels == (SPDK_LOG_DISABLED - 1) .. (SPDK_LOG_DEBUG + 1)

\* <syslog.h> priorities used by spdk_log_to_syslog_level
LOG_ERR == 3
LOG_WARNING == 4
LOG_NOTICE == 5
LOG_INFO == 6

VLOG_RATELIMIT_INTERVAL_DEFAULT == 10
VLOG_RATELIMIT_BURST_DEFAULT == 5000

\* microseconds per second: the literal of line 75 and line 149
USEC_PER_SEC == 1000000

\* largest value of the C type int (the type of g_rs.interval)
INT_MAX == 2147483647

\* ------------------------------------------------------------------------
\* Bounds of the model
\* ------------------------------------------------------------------------
\* the monotonic clock advances in whole seconds up to MaxSec seconds
MaxSec == 2
\* intervals 0 .. MaxInterval are passed to spdk_log_ratelimit_set_interval
MaxInterval == 1
\* bursts 0 .. MaxBurst are passed to spdk_log_ratelimit_set_burst
MaxBurst == 2
\* a new log call starts only while printed < MaxPrinted and missed < MaxMissed
MaxPrinted == 3
MaxMissed == 2
\* buffers of 0 .. MaxDumpLen bytes are passed to spdk_log_dump
MaxDumpLen == 33

Threads == {"t1", "t2"}
NoThread == "none"

\* the smallest interval whose product with 1000000 does not fit an int
OverflowInterval == (INT_MAX \div USEC_PER_SEC) + 1

Intervals == 0 .. MaxInterval
Bursts == 0 .. MaxBurst

\* the levels logged while the thresholds keep their initial value ERROR:
\* one that passes line 269 and one that both operands of line 269 filter
CallLevels == {SPDK_LOG_ERROR, SPDK_LOG_WARN}

VARIABLES
    g_log,                    \* TRUE iff a custom sink override is installed
    g_spdk_log_level,         \* the log (syslog) threshold
    g_spdk_log_print_level,   \* the print (console) threshold
    g_rs,                     \* struct ratelimit_state, lock = holder or NoThread
    now,                      \* CLOCK_MONOTONIC in microseconds
    pc,                       \* per thread: the line it is about to execute
    level,                    \* per thread: the level argument of spdk_vlog
    arg,                      \* per thread: the argument of a limiter setter
    ret,                      \* per thread: ret of log_print_ratelimit
    tmp,                      \* per thread: the counter value read by ++
    out,                      \* per thread: what the current call wrote, in order
    why,                      \* per thread (history): the path the call took
    h,                        \* history of the limiter, read by the properties only
    dump                      \* the call of spdk_log_dump in progress: arguments,
                              \* locals of fdump and what was written to fp

vars == <<g_log, g_spdk_log_level, g_spdk_log_print_level, g_rs, now,
          pc, level, arg, ret, tmp, out, why, h, dump>>

globals == <<g_log, g_spdk_log_level, g_spdk_log_print_level>>

\* ------------------------------------------------------------------------
\* Pure functions
\* ------------------------------------------------------------------------
\* faulty variant of spdk_log_to_syslog_level: the case of line 247-248 is
\* missing, DISABLED falls to the default
SyslogLevelNoDisabled(l) ==
    CASE l = SPDK_LOG_DEBUG -> LOG_INFO
      [] l = SPDK_LOG_INFO -> LOG_INFO
      [] l = SPDK_LOG_NOTICE -> LOG_NOTICE
      [] l = SPDK_LOG_WARN -> LOG_WARNING
      [] l = SPDK_LOG_ERROR -> LOG_ERR
      [] OTHER -> LOG_INFO

\* spdk_log_to_syslog_level
spdk_log_to_syslog_level(l) ==
    CASE l = SPDK_LOG_DEBUG -> LOG_INFO
      [] l = SPDK_LOG_INFO -> LOG_INFO
      [] l = SPDK_LOG_NOTICE -> LOG_NOTICE
      [] l = SPDK_LOG_WARN -> LOG_WARNING
      [] l = SPDK_LOG_ERROR -> LOG_ERR
      [] l = SPDK_LOG_DISABLED -> -1
      [] OTHER -> LOG_INFO

\* TRUE iff interval * 1000000 does not fit an int
MulOverflows(interval) ==
    \/ interval > INT_MAX \div USEC_PER_SEC
    \/ interval < -(INT_MAX \div USEC_PER_SEC)

\* interval * 1000000 reduced modulo 2^32 into the range of int.  1000000 is
\* 15625 * 2^6, so the product modulo 2^32 is ((interval * 15625) mod 2^26) * 2^6;
\* written this way no intermediate value leaves the 32-bit range.
WrapMul32(interval) ==
    LET m == (interval * 15625) % 67108864
    IN  IF m >= 33554432 THEN (m - 67108864) * 64 ELSE m * 64

\* begin + interval * 1000000 < cur_time with the product of unbounded width
ExactElapsed(begin, interval, cur_time) ==
    LET d == cur_time - begin
        q == d \div USEC_PER_SEC
        r == d % USEC_PER_SEC
    IN  interval < q \/ (interval = q /\ r > 0)

\* The values the test of line 149 can have.  The product is computed in int;
\* when it overflows the behaviour is undefined: the build either wraps the
\* product to 32 bits or computes it in the width of the sum.
WindowElapsed(begin, interval, cur_time) ==
    IF MulOverflows(interval)
    THEN {begin + WrapMul32(interval) < cur_time,
          ExactElapsed(begin, interval, cur_time)}
    ELSE {begin + interval * USEC_PER_SEC < cur_time}

\* faulty variant of BurstAllows: off by one, lets message burst + 1 pass
BurstAllowsOffByOne(burst, printed) == burst # 0 /\ burst >= printed

\* line 161: the test that lets a message pass
BurstAllows(burst, printed) == burst # 0 /\ burst > printed

\* faulty variant of ZeroIntervalRet: interval 0 lets every message pass
ZeroIntervalRetAllow == TRUE

\* line 130-131: the value returned when interval is zero
ZeroIntervalRet == FALSE

\* faulty variant of LockBusyRet: a busy lock drops the message
LockBusyRetDeny == FALSE

\* line 140-141: the value returned when the lock is busy
LockBusyRet == TRUE

\* faulty variant of TrylockSucceeds: the result of trylock is ignored
TrylockIgnored(lock) == TRUE

\* pthread_spin_trylock succeeds iff nobody holds the lock
TrylockSucceeds(lock) == lock = NoThread

\* faulty variant of LevelFiltered: the comparisons are inverted
LevelFilteredBelow(l, print_level, log_level) == l < print_level /\ l < log_level

\* line 269: the level policy, TRUE iff spdk_vlog returns at line 270
LevelFiltered(l, print_level, log_level) == l > print_level /\ l > log_level

\* one entry of out
Wrote(sink, kind, a, b) == [sink |-> sink, kind |-> kind, a |-> a, b |-> b]

\* ------------------------------------------------------------------------
\* Initial state: static initialisation and the constructor
\* spdk_log_ratelimit_init
\* ------------------------------------------------------------------------
\* bound on the calls that found the lock busy within one window
MaxBusy == 1

\* the history counter of limiter calls saturates here
CallsCap == MaxBurst + 2

\* no call of spdk_log_dump is in progress
DumpIdle ==
    [pc |-> "idle", label |-> <<>>, len |-> 0, pat |-> 0, idx |-> 0,
     total |-> 0, tmpbuf |-> <<>>, buf16 |-> <<>>, fp |-> <<>>]

HistInit ==
    [clean |-> TRUE,     \* no contention, no rollover due, no setter since the first call
     calls |-> 0,        \* decisions taken with the lock held since Init (saturating)
     locked |-> 0,       \* calls of the current window that took the lock
     allowed |-> 0,      \* of these, the calls that returned true
     busy |-> 0,         \* calls that found the lock busy during the current window
     cfgchg |-> FALSE,   \* a setter stored a value after the first window began
     thrchg |-> {}]      \* threads whose call in progress saw a threshold change

Init ==
    /\ g_log = FALSE
    /\ g_spdk_log_level = SPDK_LOG_ERROR
    /\ g_spdk_log_print_level = SPDK_LOG_ERROR
    /\ g_rs = [lock |-> NoThread,
               interval |-> VLOG_RATELIMIT_INTERVAL_DEFAULT,
               burst |-> VLOG_RATELIMIT_BURST_DEFAULT,
               printed |-> 0, missed |-> 0, begin |-> 0]
    /\ now = 1
    /\ pc = [t \in Threads |-> "idle"]
    /\ level = [t \in Threads |-> SPDK_LOG_DISABLED]
    /\ arg = [t \in Threads |-> 0]
    /\ ret = [t \in Threads |-> FALSE]
    /\ tmp = [t \in Threads |-> 0]
    /\ out = [t \in Threads |-> <<>>]
    /\ why = [t \in Threads |-> "none"]
    /\ h = HistInit
    /\ dump = DumpIdle

locals == <<level, arg, ret, tmp, out, why>>

\* the lines of the limiter setters, and idle: no log call is in progress
SetterPcs == {"idle", "si92", "si94", "si96", "sb108", "sb110", "sb112"}

\* ------------------------------------------------------------------------
\* The clock
\* ------------------------------------------------------------------------
\* get_current_system_time reads `now`; time passes between any two steps
Tick ==
    /\ now \div USEC_PER_SEC < MaxSec
    /\ now' = now + USEC_PER_SEC
    /\ UNCHANGED <<globals, g_rs, pc, locals, h, dump>>

\* ------------------------------------------------------------------------
\* Level policy and override
\* ------------------------------------------------------------------------
\* a store that changes a threshold is seen by every call in progress
HistThreshold(old, new) ==
    [h EXCEPT !.thrchg = IF old = new THEN @
                         ELSE @ \cup {t \in Threads : pc[t] \notin SetterPcs}]

\* assert(cond): a true condition passes; a false one aborts the process when
\* assertions are compiled in and is not evaluated when the build defines NDEBUG
AssertOutcomes(cond) == IF cond THEN {"pass"} ELSE {"abort", "pass"}

\* abort() ends the process: no thread takes another step
Aborted == \E t \in Threads : pc[t] = "aborted"

Abort ==
    /\ pc' = [t \in Threads |-> "aborted"]
    /\ UNCHANGED <<globals, g_rs, now, locals, h, dump>>

spdk_log_set_level(l) ==
    /\ ~Aborted
    /\ \E o \in AssertOutcomes(l >= SPDK_LOG_DISABLED /\ l <= SPDK_LOG_DEBUG) :
         IF o = "abort"
         THEN Abort
         ELSE /\ g_spdk_log_level' = l
              /\ h' = HistThreshold(g_spdk_log_level, l)
              /\ UNCHANGED <<g_log, g_spdk_log_print_level, g_rs, now, pc, locals, dump>>

spdk_log_get_level == g_spdk_log_level

spdk_log_set_print_level(l) ==
    /\ ~Aborted
    /\ \E o \in AssertOutcomes(l >= SPDK_LOG_DISABLED /\ l <= SPDK_LOG_DEBUG) :
         IF o = "abort"
         THEN Abort
         ELSE /\ g_spdk_log_print_level' = l
              /\ h' = HistThreshold(g_spdk_log_print_level, l)
              /\ UNCHANGED <<g_log, g_spdk_log_level, g_rs, now, pc, locals, dump>>

spdk_log_get_print_level == g_spdk_log_print_level

\* logf = TRUE stands for a non-NULL function; with NULL only openlog is called
spdk_log_open(logf) ==
    /\ ~Aborted
    /\ g_log' = IF logf THEN TRUE ELSE g_log
    /\ UNCHANGED <<g_spdk_log_level, g_spdk_log_print_level, g_rs, now, pc, locals, h, dump>>

\* ------------------------------------------------------------------------
\* spdk_log_ratelimit_set_interval / spdk_log_ratelimit_set_burst
\* ------------------------------------------------------------------------
SetIntervalCall(t, i) ==
    /\ pc[t] = "idle"
    /\ pc' = [pc EXCEPT ![t] = "si92"]
    /\ arg' = [arg EXCEPT ![t] = i]
    /\ UNCHANGED <<globals, g_rs, now, level, ret, tmp, out, why, h, dump>>

SetBurstCall(t, b) ==
    /\ pc[t] = "idle"
    /\ pc' = [pc EXCEPT ![t] = "sb108"]
    /\ arg' = [arg EXCEPT ![t] = b]
    /\ UNCHANGED <<globals, g_rs, now, level, ret, tmp, out, why, h, dump>>

\* pthread_spin_lock: the caller spins until the lock is free and takes it
SpinLock(t, from, to) ==
    /\ pc[t] = from
    /\ g_rs.lock = NoThread
    /\ g_rs' = [g_rs EXCEPT !.lock = t]
    /\ pc' = [pc EXCEPT ![t] = to]
    /\ UNCHANGED <<globals, now, locals, h, dump>>

\* pthread_spin_unlock
SpinUnlock(t, from, to) ==
    /\ pc[t] = from
    /\ g_rs' = [g_rs EXCEPT !.lock = NoThread]
    /\ pc' = [pc EXCEPT ![t] = to]
    /\ arg' = [arg EXCEPT ![t] = 0]
    /\ UNCHANGED <<globals, now, level, ret, tmp, out, why, h, dump>>

\* a setter that stores once a window has begun changes the configuration
\* under which the calls of that window are counted
HistStore == [h EXCEPT !.cfgchg = @ \/ g_rs.begin # 0,
                       !.clean = @ /\ g_rs.begin = 0]

SI92(t) == SpinLock(t, "si92", "si94")

SI94(t) ==
    /\ pc[t] = "si94"
    /\ g_rs' = [g_rs EXCEPT !.interval = arg[t]]
    /\ pc' = [pc EXCEPT ![t] = "si96"]
    /\ h' = HistStore
    /\ UNCHANGED <<globals, now, locals, dump>>

SI96(t) == SpinUnlock(t, "si96", "idle")

SB108(t) == SpinLock(t, "sb108", "sb110")

SB110(t) ==
    /\ pc[t] = "sb110"
    /\ g_rs' = [g_rs EXCEPT !.burst = arg[t]]
    /\ pc' = [pc EXCEPT ![t] = "sb112"]
    /\ h' = HistStore
    /\ UNCHANGED <<globals, now, locals, dump>>

SB112(t) == SpinUnlock(t, "sb112", "idle")

\* ------------------------------------------------------------------------
\* spdk_vlog (spdk_log forwards to it) and log_print_ratelimit
\* ------------------------------------------------------------------------
\* a thread enters spdk_vlog with level l
VlogCall(t, l) ==
    /\ pc[t] = "idle"
    /\ g_rs.printed < MaxPrinted
    /\ g_rs.missed < MaxMissed
    /\ h.busy < MaxBusy
    /\ pc' = [pc EXCEPT ![t] = "v264"]
    /\ level' = [level EXCEPT ![t] = l]
    /\ UNCHANGED <<globals, g_rs, now, arg, ret, tmp, out, why, h, dump>>

\* faulty variant of V264: the return of line 266 is missing
V264FallsThrough(t) ==
    /\ pc[t] = "v264"
    /\ out' = [out EXCEPT ![t] =
                 IF g_log THEN Append(@, Wrote("override", "call", level[t], 0)) ELSE @]
    /\ why' = [why EXCEPT ![t] = IF g_log THEN "override" ELSE @]
    /\ pc' = [pc EXCEPT ![t] = "v269"]
    /\ UNCHANGED <<globals, g_rs, now, level, arg, ret, tmp, h, dump>>

\* line 264-267: the override gets the raw call and spdk_vlog returns
V264(t) ==
    /\ pc[t] = "v264"
    /\ IF g_log
       THEN /\ out' = [out EXCEPT ![t] = Append(@, Wrote("override", "call", level[t], 0))]
            /\ why' = [why EXCEPT ![t] = "override"]
            /\ pc' = [pc EXCEPT ![t] = "done"]
       ELSE /\ pc' = [pc EXCEPT ![t] = "v269"]
            /\ UNCHANGED <<out, why>>
    /\ UNCHANGED <<globals, g_rs, now, level, arg, ret, tmp, h, dump>>

\* line 273-276 once the thresholds let the level pass: DISABLED maps to -1
AfterFilter(t) ==
    IF spdk_log_to_syslog_level(level[t]) < 0
    THEN /\ why' = [why EXCEPT ![t] = "disabled"]
         /\ pc' = [pc EXCEPT ![t] = "done"]
    ELSE /\ pc' = [pc EXCEPT ![t] = "r130"]
         /\ UNCHANGED why

\* line 269, left operand: level > g_spdk_log_print_level
V269(t) ==
    /\ pc[t] = "v269"
    /\ IF level[t] > g_spdk_log_print_level
       THEN /\ pc' = [pc EXCEPT ![t] = "v269b"]
            /\ UNCHANGED why
       ELSE AfterFilter(t)
    /\ UNCHANGED <<globals, g_rs, now, level, arg, ret, tmp, out, h, dump>>

\* faulty variant of V269b: the return of line 270 is missing
V269bNoReturn(t) ==
    /\ pc[t] = "v269b"
    /\ AfterFilter(t)
    /\ UNCHANGED <<globals, g_rs, now, level, arg, ret, tmp, out, h, dump>>

\* line 269, right operand: level > g_spdk_log_level
V269b(t) ==
    /\ pc[t] = "v269b"
    /\ IF level[t] > g_spdk_log_level
       THEN /\ why' = [why EXCEPT ![t] = "filtered"]
            /\ pc' = [pc EXCEPT ![t] = "done"]
       ELSE AfterFilter(t)
    /\ UNCHANGED <<globals, g_rs, now, level, arg, ret, tmp, out, h, dump>>

\* line 130-132: no lock is taken to read interval
R130(t) ==
    /\ pc[t] = "r130"
    /\ IF g_rs.interval = 0
       THEN /\ ret' = [ret EXCEPT ![t] = ZeroIntervalRet]
            /\ why' = [why EXCEPT ![t] = "interval0"]
            /\ pc' = [pc EXCEPT ![t] = IF ZeroIntervalRet THEN "v285" ELSE "done"]
       ELSE /\ pc' = [pc EXCEPT ![t] = "r140"]
            /\ UNCHANGED <<ret, why>>
    /\ h' = [h EXCEPT !.clean = @ /\ g_rs.interval >= 1]
    /\ UNCHANGED <<globals, g_rs, now, level, arg, tmp, out, dump>>

\* line 140-142: pthread_spin_trylock
R140(t) ==
    /\ pc[t] = "r140"
    /\ IF TrylockSucceeds(g_rs.lock)
       THEN /\ g_rs' = [g_rs EXCEPT !.lock = t]
            /\ why' = [why EXCEPT ![t] = "locked"]
            /\ pc' = [pc EXCEPT ![t] = "r144"]
            /\ h' = [h EXCEPT !.locked = @ + 1]
            /\ UNCHANGED ret
       ELSE /\ ret' = [ret EXCEPT ![t] = LockBusyRet]
            /\ why' = [why EXCEPT ![t] = "busy"]
            /\ pc' = [pc EXCEPT ![t] = IF LockBusyRet THEN "v285" ELSE "done"]
            /\ h' = [h EXCEPT !.busy = @ + 1, !.clean = FALSE]
            /\ UNCHANGED g_rs
    /\ UNCHANGED <<globals, now, level, arg, tmp, out, dump>>

\* line 144-146
R144(t) ==
    /\ pc[t] = "r144"
    /\ g_rs' = [g_rs EXCEPT !.begin = IF @ = 0 THEN now ELSE @]
    /\ pc' = [pc EXCEPT ![t] = "r148"]
    /\ UNCHANGED <<globals, now, locals, h, dump>>

\* line 150-158: the window has elapsed
Rollover(t) ==
    /\ g_rs' = [g_rs EXCEPT !.missed = 0, !.begin = now, !.printed = 0]
    /\ out' = [out EXCEPT ![t] =
                 IF g_rs.missed # 0
                 THEN Append(@, Wrote("stderr", "summary", g_rs.missed, g_rs.printed))
                 ELSE @]

\* line 148-159: cur_time is read and the window is rolled over if it elapsed
R148(t) ==
    /\ pc[t] = "r148"
    /\ \E elapsed \in WindowElapsed(g_rs.begin, g_rs.interval, now) :
         IF elapsed
         THEN /\ Rollover(t)
              /\ h' = [h EXCEPT !.locked = 1, !.allowed = 0, !.busy = 0,
                                !.clean = @ /\ ~ExactElapsed(g_rs.begin, g_rs.interval, now)]
         ELSE /\ UNCHANGED <<g_rs, out>>
              /\ h' = [h EXCEPT !.clean = @ /\ ~ExactElapsed(g_rs.begin, g_rs.interval, now)]
    /\ pc' = [pc EXCEPT ![t] = "r161"]
    /\ UNCHANGED <<globals, now, level, arg, ret, tmp, why, dump>>

\* line 161: the test, and the load of the counter that ++ is about to store
R161(t) ==
    /\ pc[t] = "r161"
    /\ IF BurstAllows(g_rs.burst, g_rs.printed)
       THEN /\ tmp' = [tmp EXCEPT ![t] = g_rs.printed]
            /\ pc' = [pc EXCEPT ![t] = "r162"]
       ELSE /\ tmp' = [tmp EXCEPT ![t] = g_rs.missed]
            /\ pc' = [pc EXCEPT ![t] = "r165"]
    /\ UNCHANGED <<globals, g_rs, now, level, arg, ret, out, why, h, dump>>

HistDecided(allowed) ==
    [h EXCEPT !.calls = IF @ < CallsCap THEN @ + 1 ELSE @,
              !.allowed = IF allowed THEN @ + 1 ELSE @]

\* line 162-163
R162(t) ==
    /\ pc[t] = "r162"
    /\ g_rs' = [g_rs EXCEPT !.printed = tmp[t] + 1]
    /\ ret' = [ret EXCEPT ![t] = TRUE]
    /\ tmp' = [tmp EXCEPT ![t] = 0]
    /\ pc' = [pc EXCEPT ![t] = "r169"]
    /\ h' = HistDecided(TRUE)
    /\ UNCHANGED <<globals, now, level, arg, out, why, dump>>

\* line 165-166
R165(t) ==
    /\ pc[t] = "r165"
    /\ g_rs' = [g_rs EXCEPT !.missed = tmp[t] + 1]
    /\ ret' = [ret EXCEPT ![t] = FALSE]
    /\ tmp' = [tmp EXCEPT ![t] = 0]
    /\ pc' = [pc EXCEPT ![t] = "r169"]
    /\ h' = HistDecided(FALSE)
    /\ UNCHANGED <<globals, now, level, arg, out, why, dump>>

\* faulty variant of R169: returns ret without pthread_spin_unlock
R169NoUnlock(t) ==
    /\ pc[t] = "r169"
    /\ pc' = [pc EXCEPT ![t] = IF ret[t] THEN "v285" ELSE "done"]
    /\ UNCHANGED <<globals, g_rs, now, locals, h, dump>>

\* line 169-171 and, back in spdk_vlog, line 278-280
R169(t) ==
    /\ pc[t] = "r169"
    /\ g_rs' = [g_rs EXCEPT !.lock = NoThread]
    /\ pc' = [pc EXCEPT ![t] = IF ret[t] THEN "v285" ELSE "done"]
    /\ UNCHANGED <<globals, now, locals, h, dump>>

\* line 285-292: the console
V285(t) ==
    /\ pc[t] = "v285"
    /\ out' = [out EXCEPT ![t] =
                 IF level[t] <= g_spdk_log_print_level
                 THEN Append(@, Wrote("stderr", "msg", level[t], 0))
                 ELSE @]
    /\ pc' = [pc EXCEPT ![t] = "v294"]
    /\ UNCHANGED <<globals, g_rs, now, level, arg, ret, tmp, why, h, dump>>

\* faulty variant of V294: the system log is gated by the print threshold
V294UsesPrintLevel(t) ==
    /\ pc[t] = "v294"
    /\ out' = [out EXCEPT ![t] =
                 IF level[t] <= g_spdk_log_print_level
                 THEN Append(@, Wrote("syslog", "msg", level[t],
                                      spdk_log_to_syslog_level(level[t])))
                 ELSE @]
    /\ pc' = [pc EXCEPT ![t] = "done"]
    /\ UNCHANGED <<globals, g_rs, now, level, arg, ret, tmp, why, h, dump>>

\* line 294-300: the system log
V294(t) ==
    /\ pc[t] = "v294"
    /\ out' = [out EXCEPT ![t] =
                 IF level[t] <= g_spdk_log_level
                 THEN Append(@, Wrote("syslog", "msg", level[t],
                                      spdk_log_to_syslog_level(level[t])))
                 ELSE @]
    /\ pc' = [pc EXCEPT ![t] = "done"]
    /\ UNCHANGED <<globals, g_rs, now, level, arg, ret, tmp, why, h, dump>>

\* spdk_vlog returns; the locals of the call die
Return(t) ==
    /\ pc[t] = "done"
    /\ pc' = [pc EXCEPT ![t] = "idle"]
    /\ level' = [level EXCEPT ![t] = SPDK_LOG_DISABLED]
    /\ ret' = [ret EXCEPT ![t] = FALSE]
    /\ out' = [out EXCEPT ![t] = <<>>]
    /\ why' = [why EXCEPT ![t] = "none"]
    /\ h' = [h EXCEPT !.thrchg = @ \ {t}]
    /\ UNCHANGED <<globals, g_rs, now, arg, tmp, dump>>

\* ------------------------------------------------------------------------
\* spdk_log_dump / fdump.  Text is a sequence of character codes; fp is the
\* sequence of the lines written, each without its newline.
\* ------------------------------------------------------------------------
SPACE == <<32>>

\* labels passed to spdk_log_dump: "" and "dump"
DumpLabels == {<<>>, <<100, 117, 109, 112>>}

\* the buffers passed to spdk_log_dump: byte i of buffer pat
DumpPats == {0, 65}
Byte(pat, i) == (pat + 37 * i) % 256

\* one digit of %x
HexDigit(d) == IF d < 10 THEN 48 + d ELSE 87 + d

\* "%08x"
Hex8(n) == [k \in 1 .. 8 |-> HexDigit((n \div (16 ^ (8 - k))) % 16)]

\* "%2.2x"
Hex2(n) == <<HexDigit((n \div 16) % 16), HexDigit(n % 16)>>

\* isprint in the C locale
isprint(c) == c >= 32 /\ c <= 126

\* line 333: the character stored into buf16
Printable(c) == IF isprint(c) THEN c ELSE 46

\* snprintf(tmpbuf + total, ..., text): the text replaces what follows offset
\* total; MAX_TMPBUF is never reached by a row
Snprintf(tmpbuf, total, text) == SubSeq(tmpbuf, 1, total) \o text

DumpCall(label, len, pat) ==
    /\ dump.pc = "idle"
    /\ dump' = [dump EXCEPT !.pc = "f311", !.label = label, !.len = len, !.pat = pat]
    /\ UNCHANGED <<globals, g_rs, now, pc, locals, h>>

\* line 311-314
F311 ==
    /\ dump.pc = "f311"
    /\ dump' = [dump EXCEPT !.pc = "f315", !.fp = <<dump.label>>,
                            !.buf16 = <<>>, !.total = 0, !.idx = 0]
    /\ UNCHANGED <<globals, g_rs, now, pc, locals, h>>

\* line 316-322: a full row is written before the next one starts
FlushedRow(d) ==
    IF d.idx # 0 /\ d.idx % 16 = 0
    THEN [d EXCEPT !.fp = Append(@, Snprintf(d.tmpbuf, d.total, SPACE \o d.buf16)),
                   !.tmpbuf = Snprintf(d.tmpbuf, d.total, SPACE \o d.buf16),
                   !.buf16 = <<>>,
                   !.total = 0]
    ELSE d

\* line 323-326: the offset starts a row
WithOffset(d) ==
    IF d.idx % 16 = 0
    THEN [d EXCEPT !.tmpbuf = Snprintf(d.tmpbuf, d.total, Hex8(d.idx) \o SPACE),
                   !.total = @ + 9]
    ELSE d

\* line 327-330: a space before byte 0 and byte 8 of a row
WithGap(d) ==
    IF d.idx % 8 = 0
    THEN [d EXCEPT !.tmpbuf = Snprintf(d.tmpbuf, d.total, SPACE), !.total = @ + 1]
    ELSE d

\* line 331-333 and idx++
WithByte(d) ==
    [d EXCEPT !.tmpbuf = Snprintf(d.tmpbuf, d.total, Hex2(Byte(d.pat, d.idx)) \o SPACE),
              !.total = @ + 3,
              !.buf16 = Append(@, Printable(Byte(d.pat, d.idx))),
              !.idx = @ + 1]

\* line 315-334: one iteration of the first loop, or its exit
F315 ==
    /\ dump.pc = "f315"
    /\ dump' = IF dump.idx < dump.len
               THEN WithByte(WithGap(WithOffset(FlushedRow(dump))))
               ELSE [dump EXCEPT !.pc = "f335"]
    /\ UNCHANGED <<globals, g_rs, now, pc, locals, h>>

\* line 336-339
PadGap(d) ==
    IF d.idx = 8
    THEN [d EXCEPT !.tmpbuf = Snprintf(d.tmpbuf, d.total, SPACE), !.total = @ + 1]
    ELSE d

\* line 341 and idx++
PadByte(d) ==
    [d EXCEPT !.tmpbuf = Snprintf(d.tmpbuf, d.total, SPACE \o SPACE \o SPACE),
              !.total = @ + 3,
              !.idx = @ + 1]

\* line 335-342: one iteration of the padding loop, or its exit
F335 ==
    /\ dump.pc = "f335"
    /\ dump' = IF dump.idx % 16 # 0
               THEN PadByte(PadGap(dump))
               ELSE [dump EXCEPT !.pc = "f343"]
    /\ UNCHANGED <<globals, g_rs, now, pc, locals, h>>

\* line 343-345: the last row is written
F343 ==
    /\ dump.pc = "f343"
    /\ dump' = [dump EXCEPT
                  !.pc = "done",
                  !.tmpbuf = Snprintf(dump.tmpbuf, dump.total, SPACE \o SPACE \o dump.buf16),
                  !.fp = Append(@, Snprintf(dump.tmpbuf, dump.total,
                                            SPACE \o SPACE \o dump.buf16))]
    /\ UNCHANGED <<globals, g_rs, now, pc, locals, h>>

\* spdk_log_dump returns
DumpReturn ==
    /\ dump.pc = "done"
    /\ dump' = DumpIdle
    /\ UNCHANGED <<globals, g_rs, now, pc, locals, h>>

\* ------------------------------------------------------------------------
\* Specifications
\* ------------------------------------------------------------------------
\* the steps of a call in progress
VlogStep(t) ==
    \/ V264(t) \/ V269(t) \/ V269b(t)
    \/ R130(t) \/ R140(t) \/ R144(t) \/ R148(t)
    \/ R161(t) \/ R162(t) \/ R165(t) \/ R169(t)
    \/ V285(t) \/ V294(t) \/ Return(t)

SetterStep(t) ==
    \/ SI92(t) \/ SI94(t) \/ SI96(t)
    \/ SB108(t) \/ SB110(t) \/ SB112(t)

\* the thread of the sequential specifications
Main == "t1"

\* Spec: one thread logs at the levels ERROR and WARN under the initial thresholds and
\* reconfigures the limiter between its calls while time passes; the intervals
\* include one whose product with 1000000 overflows int.
Next ==
    \/ Tick
    \/ \E l \in CallLevels : VlogCall(Main, l)
    \/ VlogStep(Main)
    \/ \E i \in Intervals \cup {OverflowInterval} : SetIntervalCall(Main, i)
    \/ \E b \in Bursts : SetBurstCall(Main, b)
    \/ SetterStep(Main)

Spec == Init /\ [][Next]_vars

\* SpecMT: all threads log at the levels ERROR and WARN and reconfigure the limiter
\* concurrently while time passes.
NextMT ==
    \/ Tick
    \/ \E t \in Threads, l \in CallLevels : VlogCall(t, l)
    \/ \E t \in Threads : VlogStep(t)
    \/ \E t \in Threads, i \in Intervals : SetIntervalCall(t, i)
    \/ \E t \in Threads, b \in Bursts : SetBurstCall(t, b)
    \/ \E t \in Threads : SetterStep(t)

SpecMT == Init /\ [][NextMT]_vars

\* SpecDispatch: one thread logs at every level while the thresholds, the
\* override and the limiter are changed between its steps; all of it happens
\* within one reading of the clock.
NextDispatch ==
    \/ \E l \in Levels : VlogCall(Main, l)
    \/ VlogStep(Main)
    \/ \E l \in Levels : spdk_log_set_level(l)
    \/ \E l \in Levels : spdk_log_set_print_level(l)
    \/ \E logf \in BOOLEAN : spdk_log_open(logf)
    \/ \E i \in 0 .. 1 : SetIntervalCall(Main, i)
    \/ \E b \in 0 .. 1 : SetBurstCall(Main, b)
    \/ SetterStep(Main)

SpecDispatch == Init /\ [][NextDispatch]_vars

\* thread t calls a threshold setter between its other calls
SetLevelBy(t, l) == pc[t] = "idle" /\ spdk_log_set_level(l)
SetPrintLevelBy(t, l) == pc[t] = "idle" /\ spdk_log_set_print_level(l)

\* SpecAssert: a sequential program sets the thresholds with arguments in and
\* out of range, logs at every level and reconfigures the limiter, within one
\* reading of the clock.
NextAssert ==
    \/ \E l \in ArgLevels : SetLevelBy(Main, l)
    \/ \E l \in ArgLevels : SetPrintLevelBy(Main, l)
    \/ \E l \in Levels : VlogCall(Main, l)
    \/ VlogStep(Main)
    \/ \E i \in 0 .. 1 : SetIntervalCall(Main, i)
    \/ \E b \in 0 .. 1 : SetBurstCall(Main, b)
    \/ SetterStep(Main)

SpecAssert == Init /\ [][NextAssert]_vars

\* SpecConsole: a sequential program sets both thresholds, logs at the levels
\* ERROR and WARN and reconfigures the limiter while time passes.
NextConsole ==
    \/ Tick
    \/ \E l \in Levels : SetLevelBy(Main, l)
    \/ \E l \in Levels : SetPrintLevelBy(Main, l)
    \/ \E l \in CallLevels : VlogCall(Main, l)
    \/ VlogStep(Main)
    \/ \E i \in Intervals : SetIntervalCall(Main, i)
    \/ \E b \in Bursts : SetBurstCall(Main, b)
    \/ SetterStep(Main)

SpecConsole == Init /\ [][NextConsole]_vars

\* SpecDump: spdk_log_dump is called with every label, length and buffer
NextDump ==
    \/ \E label \in DumpLabels, len \in 0 .. MaxDumpLen, pat \in DumpPats :
         DumpCall(label, len, pat)
    \/ F311 \/ F315 \/ F335 \/ F343
    \/ DumpReturn

SpecDump == Init /\ [][NextDump]_vars

\* FairSpec: the threads log and reconfigure the limiter concurrently within
\* one reading of the clock.  The scheduler lets every thread that can take a
\* step take one eventually; a thread spinning in pthread_spin_lock can take
\* its step only while the lock is free, and nothing makes the lock free at
\* the moment it looks.
NextFair ==
    \/ \E t \in Threads, l \in CallLevels : VlogCall(t, l)
    \/ \E t \in Threads : VlogStep(t)
    \/ \E t \in Threads, i \in Intervals : SetIntervalCall(t, i)
    \/ \E t \in Threads, b \in Bursts : SetBurstCall(t, b)
    \/ \E t \in Threads : SetterStep(t)

FairSpec ==
    /\ Init
    /\ [][NextFair]_vars
    /\ \A t \in Threads : WF_vars(VlogStep(t)) /\ WF_vars(SetterStep(t))

\* ------------------------------------------------------------------------
\* Properties
\* ------------------------------------------------------------------------
\* the thread holds the limiter lock at these lines
LockedPcs == {"r144", "r148", "r161", "r162", "r165", "r169",
              "si94", "si96", "sb110", "sb112"}

\* a call that took the lock and has not yet stored its counter
UndecidedPcs == {"r144", "r148", "r161", "r162", "r165"}

Pending == IF \E t \in Threads : pc[t] \in UndecidedPcs THEN 1 ELSE 0

\* the thread has just taken its decision with the lock still held
Decided(t) == pc[t] = "r169"

\* C1 (as claimed): starting from the initial limiter state, with burst >= 1
\* and interval >= 1, no lock contention and every call inside the first
\* window (the clock never exceeds window_start + interval seconds), the k-th
\* call of log_print_ratelimit returns true iff k <= burst, and call
\* burst + 1 leaves missed = 1.
C1_FirstBurstCallsPass ==
    \A t \in Threads :
        (h.clean /\ Decided(t) /\ g_rs.burst >= 1 /\ g_rs.interval >= 1)
        => /\ ret[t] = (h.calls <= g_rs.burst)
           /\ (h.calls = g_rs.burst + 1 => g_rs.missed = 1)

\* C2 (as claimed): the step of lines 148-159 starts a new window (begin =
\* current time, printed = 0, missed = 0, one summary line with the old counts
\* iff missed > 0) when the clock is strictly past window_start + interval
\* seconds, and otherwise writes nothing and resets nothing.
C2_RolloverIffElapsed ==
    [][\A t \in Threads :
         (pc[t] = "r148" /\ pc'[t] = "r161")
         => IF ExactElapsed(g_rs.begin, g_rs.interval, now)
            THEN /\ g_rs'.begin = now
                 /\ g_rs'.printed = 0
                 /\ g_rs'.missed = 0
                 /\ out'[t] = IF g_rs.missed > 0
                              THEN Append(out[t], Wrote("stderr", "summary",
                                                        g_rs.missed, g_rs.printed))
                              ELSE out[t]
            ELSE /\ out'[t] = out[t]
                 /\ g_rs' = g_rs]_vars

PrintedWithinBurst == g_rs.burst > 0 => g_rs.printed <= g_rs.burst

\* C3 (as claimed): in every reachable state burst > 0 implies printed <= burst.
C3_PrintedWithinBurst == PrintedWithinBurst

\* C3 (amended): every step that leaves burst unchanged preserves
\* burst > 0 => printed <= burst, and a step that raises printed raises it to
\* at most burst; only a store of spdk_log_ratelimit_set_burst can leave
\* printed above burst.
C3_CallsKeepPrintedWithinBurst ==
    [][/\ (PrintedWithinBurst /\ g_rs'.burst = g_rs.burst) => PrintedWithinBurst'
       /\ g_rs'.printed > g_rs.printed
          => (g_rs'.burst > 0 /\ g_rs'.printed <= g_rs'.burst)]_vars

\* C3 witness: a call has just raised printed to a burst that a setter stored
C3_Witness ==
    \E t \in Threads :
        Decided(t) /\ ret[t] /\ g_rs.printed = g_rs.burst /\ g_rs.burst = MaxBurst

\* the step by which thread t returns false from log_print_ratelimit
ReturnsFalseUnlocked(t) == pc[t] = "r130" /\ pc'[t] = "done"
ReturnsFalseLocked(t) == pc[t] = "r165" /\ pc'[t] = "r169"

\* C5 (as claimed): every call of log_print_ratelimit that returns false, in
\* every limiter configuration, leaves missed exactly 1 greater than it was
\* when the call took its decision.
C5_EveryDropIsCounted ==
    [][\A t \in Threads :
         (ReturnsFalseUnlocked(t) \/ ReturnsFalseLocked(t))
         => (ret'[t] = FALSE /\ g_rs'.missed = g_rs.missed + 1)]_vars

\* C5 (amended): a call that took the lock and returns false leaves missed
\* exactly 1 greater; a call that returns false at line 131 does so because
\* interval is 0 and leaves missed (and the rest of g_rs) unchanged.
C5_LockedDropIsCounted ==
    [][\A t \in Threads :
         /\ ReturnsFalseLocked(t)
            => (ret'[t] = FALSE /\ g_rs'.missed = g_rs.missed + 1)
         /\ ReturnsFalseUnlocked(t)
            => (ret'[t] = FALSE /\ g_rs.interval = 0 /\ g_rs' = g_rs)]_vars

\* C5 witness: a call has returned false with the lock held after another
\* drop was already counted
C5_Witness ==
    \E t \in Threads : Decided(t) /\ ~ret[t] /\ g_rs.missed = 2

FixedConfig == ~h.cfgchg /\ g_rs.burst > 0 /\ g_rs.interval > 0

C8_MutualExclusion ==
    /\ Cardinality({t \in Threads : pc[t] \in LockedPcs}) <= 1
    /\ \A t \in Threads : pc[t] \in LockedPcs <=> g_rs.lock = t
    /\ g_rs.printed + g_rs.missed + Pending = h.locked

\* C8 witness: one thread is inside the critical section of
\* log_print_ratelimit while the other waits in a setter for the lock, after
\* calls of both counters were accounted
C8_Witness ==
    \E t, u \in Threads :
        /\ pc[t] \in UndecidedPcs
        /\ pc[u] \in {"si92", "sb108"}
        /\ g_rs.printed >= 1
        /\ g_rs.missed >= 1

\* C4: a call that reads interval = 0 at line 130 returns false there without
\* touching g_rs or its lock, and spdk_vlog returns having written nothing,
\* whatever the level, the thresholds and burst.
C4_ZeroIntervalSuppressesAll ==
    /\ [][\A t \in Threads :
            (pc[t] = "r130" /\ g_rs.interval = 0 /\ pc'[t] # "r130")
            => (ret'[t] = FALSE /\ pc'[t] = "done" /\ g_rs' = g_rs)]_vars
    /\ [](\A t \in Threads :
            (pc[t] = "done" /\ why[t] = "interval0") => out[t] = <<>>)

\* C4 witness: print threshold WARN, log threshold DISABLED, interval 0, and
\* an ERROR call has returned through line 131
C4_Witness ==
    /\ g_spdk_log_print_level = SPDK_LOG_WARN
    /\ g_spdk_log_level = SPDK_LOG_DISABLED
    /\ g_rs.interval = 0
    /\ pc[Main] = "done"
    /\ why[Main] = "interval0"
    /\ level[Main] = SPDK_LOG_ERROR

\* C10: a call that finds the override installed at line 264 invokes it once
\* with its arguments and returns: nothing else is written and g_rs is
\* unchanged, whatever the level, the thresholds and the limiter state.
C10_OverrideBypass ==
    /\ [][\A t \in Threads :
            (pc[t] = "v264" /\ g_log /\ pc'[t] # "v264")
            => /\ pc'[t] = "done"
               /\ out'[t] = <<Wrote("override", "call", level[t], 0)>>
               /\ g_rs' = g_rs]_vars
    /\ [](\A t \in Threads :
            (pc[t] \notin {"idle", "v264"} /\ why[t] = "override")
            => /\ pc[t] = "done"
               /\ out[t] = <<Wrote("override", "call", level[t], 0)>>)

\* C10 witness: a DEBUG call went to the override although both thresholds
\* are DISABLED and interval is 0
C10_Witness ==
    /\ g_log
    /\ g_spdk_log_print_level = SPDK_LOG_DISABLED
    /\ g_spdk_log_level = SPDK_LOG_DISABLED
    /\ g_rs.interval = 0
    /\ pc[Main] = "done"
    /\ why[Main] = "override"
    /\ level[Main] = SPDK_LOG_DEBUG
    /\ out[Main] = <<Wrote("override", "call", SPDK_LOG_DEBUG, 0)>>

\* the lines of spdk_vlog and log_print_ratelimit
VlogPcs == {"v264", "v269", "v269b", "r130", "r140", "r144", "r148",
            "r161", "r162", "r165", "r169", "v285", "v294", "done"}

\* C9 (as claimed): the lock is held only by a thread between lock and unlock,
\* and every call of spdk_log, spdk_log_ratelimit_set_interval and
\* spdk_log_ratelimit_set_burst eventually returns.
C9_EveryCallReturns ==
    /\ [](\A t \in Threads : g_rs.lock = t => pc[t] \in LockedPcs)
    /\ \A t \in Threads : (pc[t] # "idle") ~> (pc[t] = "idle")

\* C9 (amended): the lock is held only by a thread between lock and unlock,
\* a held lock is eventually released, every call of spdk_log eventually
\* returns, and a setter that has taken the lock eventually returns; a setter
\* still spinning for the lock is not guaranteed to get it.
C9_LockReleasedLogReturns ==
    /\ [](\A t \in Threads : g_rs.lock = t => pc[t] \in LockedPcs)
    /\ \A t \in Threads : (g_rs.lock = t) ~> (g_rs.lock = NoThread)
    /\ \A t \in Threads : (pc[t] \in VlogPcs) ~> (pc[t] = "idle")
    /\ \A t \in Threads :
         (pc[t] \in {"si94", "si96", "sb110", "sb112"}) ~> (pc[t] = "idle")

\* C9 witness: a thread inside log_print_ratelimit is about to release the
\* lock another thread is spinning for in a setter
C9_Witness ==
    \E t, u \in Threads : pc[t] = "r169" /\ g_rs.lock = t /\ pc[u] = "si92"

\* C11: with no override, a call whose level exceeds the print threshold at
\* the left operand of line 269 and the log threshold at the right operand
\* returns at line 270: it has written to neither sink and no step of it
\* changed g_rs (printed, missed, begin, lock).
C11_FastPath ==
    /\ [][\A t \in Threads :
            (pc[t] = "v269" /\ level[t] > g_spdk_log_print_level /\ pc'[t] # "v269")
            => (pc'[t] = "v269b" /\ out'[t] = out[t] /\ g_rs' = g_rs)]_vars
    /\ [][\A t \in Threads :
            (pc[t] = "v269b" /\ level[t] > g_spdk_log_level /\ pc'[t] # "v269b")
            => (pc'[t] = "done" /\ out'[t] = <<>> /\ g_rs' = g_rs)]_vars
    /\ [](\A t \in Threads :
            why[t] = "filtered" => (pc[t] = "done" /\ out[t] = <<>>))

\* C11 witness: a DEBUG call has returned at line 270 under print threshold
\* INFO and log threshold NOTICE, after the limiter had counted a message
C11_Witness ==
    /\ ~g_log
    /\ g_spdk_log_print_level = SPDK_LOG_INFO
    /\ g_spdk_log_level = SPDK_LOG_NOTICE
    /\ pc[Main] = "done"
    /\ why[Main] = "filtered"
    /\ level[Main] = SPDK_LOG_DEBUG
    /\ out[Main] = <<>>
    /\ g_rs.printed >= 1

\* the entries of kind "msg" a call wrote to one sink
Msgs(t, sink) == SelectSeq(out[t], LAMBDA e : e.sink = sink /\ e.kind = "msg")

\* the severity the claim of C12 assigns to a level
ClaimedSeverity(l) ==
    CASE l = SPDK_LOG_ERROR -> LOG_ERR
      [] l = SPDK_LOG_WARN -> LOG_WARNING
      [] l = SPDK_LOG_NOTICE -> LOG_NOTICE
      [] l = SPDK_LOG_INFO -> LOG_INFO
      [] l = SPDK_LOG_DEBUG -> LOG_INFO

\* the call of t was let through by the limiter and has passed line 300
Delivered(t) == pc[t] = "done" /\ why[t] \in {"locked", "busy"} /\ ret[t]

\* C12: with no override, a call at a level in ERROR..DEBUG that the limiter
\* allowed and during which no threshold changed has written the message to
\* the console exactly once iff level <= print threshold (else not at all), to
\* the system log exactly once iff level <= log threshold (else not at all),
\* there with the severity ERROR->LOG_ERR, WARN->LOG_WARNING,
\* NOTICE->LOG_NOTICE, INFO and DEBUG->LOG_INFO; so it reached a sink.
C12_SinkRouting ==
    \A t \in Threads :
        (Delivered(t) /\ t \notin h.thrchg /\ level[t] >= SPDK_LOG_ERROR)
        => /\ Len(Msgs(t, "stderr")) =
                 (IF level[t] <= g_spdk_log_print_level THEN 1 ELSE 0)
           /\ Len(Msgs(t, "syslog")) =
                 (IF level[t] <= g_spdk_log_level THEN 1 ELSE 0)
           /\ \A i \in 1 .. Len(Msgs(t, "syslog")) :
                 /\ Msgs(t, "syslog")[i].a = level[t]
                 /\ Msgs(t, "syslog")[i].b = ClaimedSeverity(level[t])
           /\ Len(Msgs(t, "stderr")) + Len(Msgs(t, "syslog")) >= 1

\* C12 witness: a NOTICE call under print threshold WARN and log threshold
\* DEBUG went to the system log only, with severity LOG_NOTICE
C12_Witness ==
    /\ ~g_log
    /\ g_spdk_log_print_level = SPDK_LOG_WARN
    /\ g_spdk_log_level = SPDK_LOG_DEBUG
    /\ Delivered(Main)
    /\ Main \notin h.thrchg
    /\ level[Main] = SPDK_LOG_NOTICE
    /\ out[Main] = <<Wrote("syslog", "msg", SPDK_LOG_NOTICE, LOG_NOTICE)>>

\* the call of t has returned past line 264 and no threshold changed meanwhile
PolicyApplied(t) == pc[t] = "done" /\ why[t] # "override" /\ t \notin h.thrchg

\* C13 (as claimed): for all levels L1 < L2 and the thresholds of any state,
\* if L2 is filtered out by the thresholds then L1 is not.
C13_SevererNeverFiltered ==
    \A l1, l2 \in Levels :
        (l1 < l2 /\ LevelFiltered(l2, g_spdk_log_print_level, g_spdk_log_level))
        => ~LevelFiltered(l1, g_spdk_log_print_level, g_spdk_log_level)

\* C13 (amended): for all levels L1 < L2 and the thresholds of any state, if
\* L2 is not filtered out then L1 is not filtered out either (so if L1 is
\* filtered out, L2 is too); and a call returns at line 270 exactly when the
\* policy filters its level.
C13_PassingIsDownwardClosed ==
    /\ \A l1, l2 \in Levels :
          (l1 < l2 /\ ~LevelFiltered(l2, g_spdk_log_print_level, g_spdk_log_level))
          => ~LevelFiltered(l1, g_spdk_log_print_level, g_spdk_log_level)
    /\ \A t \in Threads :
          PolicyApplied(t)
          => (why[t] = "filtered"
              <=> LevelFiltered(level[t], g_spdk_log_print_level, g_spdk_log_level))

\* C13 witness: under print threshold WARN and log threshold NOTICE an INFO
\* call has been filtered; the severer levels ERROR..NOTICE pass the policy
C13_Witness ==
    /\ g_spdk_log_print_level = SPDK_LOG_WARN
    /\ g_spdk_log_level = SPDK_LOG_NOTICE
    /\ PolicyApplied(Main)
    /\ why[Main] = "filtered"
    /\ level[Main] = SPDK_LOG_INFO
    /\ \A l \in SPDK_LOG_ERROR .. SPDK_LOG_NOTICE :
          ~LevelFiltered(l, g_spdk_log_print_level, g_spdk_log_level)

C15_DisabledLevelNoEffect ==
    /\ [](\A t \in Threads :
            (pc[t] \in VlogPcs /\ level[t] = SPDK_LOG_DISABLED /\ why[t] # "override")
            => (pc[t] \in {"v264", "v269", "v269b", "done"} /\ out[t] = <<>>))
    /\ [][\A t \in Threads :
            (pc[t] \in VlogPcs /\ level[t] = SPDK_LOG_DISABLED /\ pc'[t] # pc[t])
            => g_rs' = g_rs]_vars

\* C15 witness: with both thresholds at DEBUG and the limiter switched on, a
\* DISABLED call passed line 269 and returned at line 275
C15_Witness ==
    /\ ~g_log
    /\ g_spdk_log_print_level = SPDK_LOG_DEBUG
    /\ g_spdk_log_level = SPDK_LOG_DEBUG
    /\ g_rs.interval >= 1
    /\ g_rs.burst >= 1
    /\ pc[Main] = "done"
    /\ why[Main] = "disabled"
    /\ level[Main] = SPDK_LOG_DISABLED
    /\ out[Main] = <<>>

\* C16 (as claimed): a dump of a zero-length buffer has written the label
\* line and no further line.
C16_ZeroLengthLabelOnly ==
    (dump.pc = "done" /\ dump.len = 0) => dump.fp = <<dump.label>>

\* the rows a finished dump wrote, the bytes row r holds and the column at
\* which the ASCII part of row r starts
DumpRows == Len(dump.fp) - 1
RowBytes(r) == IF 16 * r <= dump.len THEN 16 ELSE dump.len - 16 * (r - 1)
AsciiCol(r) == Len(dump.fp[r + 1]) - RowBytes(r)
AsciiPart(r) == SubSeq(dump.fp[r + 1], AsciiCol(r) + 1, Len(dump.fp[r + 1]))

\* C17 (as claimed): a dump of n > 0 bytes has written the label line and
\* exactly ceil(n/16) rows, each ending in the ASCII rendering of its bytes,
\* and the ASCII part of a short final row starts at the same column as the
\* ASCII part of the full rows before it; 17 bytes give two rows.
C17_RowsPaddedAligned ==
    (dump.pc = "done" /\ dump.len > 0)
    => /\ dump.fp[1] = dump.label
       /\ DumpRows = (dump.len + 15) \div 16
       /\ dump.len = 17 => DumpRows = 2
       /\ \A r \in 1 .. DumpRows :
             AsciiPart(r) = [k \in 1 .. RowBytes(r) |->
                               Printable(Byte(dump.pat, 16 * (r - 1) + k - 1))]
       /\ dump.len % 16 # 0
          => \A r \in 1 .. DumpRows - 1 : AsciiCol(DumpRows) = AsciiCol(r)

\* C18 (as claimed): with a positive interval, the step of lines 148-159
\* resets the window (g_rs changes or a summary line is written) only when at
\* least interval seconds have elapsed since window_start.
C18_NoEarlyRollover ==
    [][\A t \in Threads :
         (/\ pc[t] = "r148"
          /\ pc'[t] = "r161"
          /\ g_rs.interval > 0
          /\ (g_rs' # g_rs \/ out'[t] # out[t]))
         => (now - g_rs.begin) \div USEC_PER_SEC >= g_rs.interval]_vars

\* C19 (as claimed): while the print threshold is DISABLED and no override is
\* installed, no step of a log call writes to the console (stderr), the
\* summary line of the limiter included.
C19_DisabledPrintSilencesConsole ==
    [][\A t \in Threads :
         (/\ g_spdk_log_print_level = SPDK_LOG_DISABLED
          /\ ~g_log
          /\ Len(out'[t]) > Len(out[t]))
         => out'[t][Len(out'[t])].sink # "stderr"]_vars

\* C20 (as claimed): a call for which log_print_ratelimit incremented
\* printed and returned true has, when it returns, written its message to at
\* least one sink, whatever stores to the thresholds happened during the call.
C20_TokenReachesASink ==
    \A t \in Threads :
        (pc[t] = "done" /\ why[t] = "locked" /\ ret[t])
        => Len(Msgs(t, "stderr")) + Len(Msgs(t, "syslog")) >= 1

====
